---- MODULE Spec2Model ----
(***************************************************************************)
(* Job queue, event bus and run controllers of the agent orchestrator      *)
(* (backend/services/agent_orchestrator.py, backend/services/real_agent.py)*)
(* One atomic step of the model is one Redis command (PUBLISH, LPUSH,      *)
(* EXPIRE, HSET, BRPOP, LRANGE, SUBSCRIBE) together with the synchronous   *)
(* Python code that runs between the previous await and that command.      *)
(***************************************************************************)
EXTENDS Integers, Sequences, FiniteSets, TLC

\* ------------------------------------------------------------------ bounds
MaxJobs == 2            \* start_agent_run requests issued
NumWorkers == 2         \* worker processes (run_worker)
MaxSessions == 2        \* cap on the session counter of a run without limit
MaxFeatures == 2        \* features of a ledger that exists before the run
MaxEngineMsgs == 2      \* messages the execution engine reports in a run

\* ------------------------------------------------------- program constants
HISTORY_TTL == 3600
INITIALIZER_FEATURES == 200

Requests == 1..MaxJobs
Workers == 1..NumWorkers
Projects == {"p1", "p2"}

\* uuid.uuid4() yields a fresh identifier at every call: the run id of request
\* r and the job id JobQueue.enqueue assigns to it are distinct strings.
RunIdOf(r) == <<"run", r>>
JobIdOf(r) == <<"job", r>>
RunIds == {RunIdOf(r) : r \in Requests}
JobIds == {JobIdOf(r) : r \in Requests}
OtherId == <<"other", 0>>
\* The run id a caller hands to RealAgentHarness.
RealRunId == <<"run", 0>>
Keys == RunIds \cup JobIds \cup {OtherId}

\* Optional[int]: <<>> is None, <<n>> is the integer n.
None == <<>>
Some(x) == <<x>>
MaxIterChoices == {None, Some(0), Some(1), Some(2)}

\* Python truthiness of Optional[int] (None and 0 are falsy).
Truthy(mi) == mi # None /\ mi[1] # 0

\* RunStatus / job status strings
Terminal == {"completed", "failed", "cancelled"}
NoField == "nil"

VARIABLES
    queue,      \* Redis list agent:jobs:queue, index 1 is the head (LPUSH side)
    jobs,       \* Redis hashes agent:job:{key}: fields status and data
    history,    \* Redis lists agent:history:{run_id}, index 1 is the newest
    ttl,        \* expiry of agent:history:{run_id}: -1 none, else seconds left
    inbox,      \* per subscriber: messages delivered by PUBLISH, oldest first
    sub,        \* per subscriber: connection state
    ledger,     \* feature_list.json of every project directory
    req,        \* start_agent_run requests: position and parameters
    wk,         \* run_worker processes: position and current job
    hs,         \* AgentHarness objects owned by the workers
    pub,        \* per process: the publish() call in flight
    claimed,    \* log: jobs returned by dequeue, in order
    reads,      \* log: progress snapshots read at the top of the loop
    clock,      \* wall clock: seconds elapsed, and per run the time of the
                \* last append to its history
    hook        \* the last call of the security hook: command and verdict

redisVars == <<queue, jobs, history, ttl>>
busVars == <<inbox, sub>>
procVars == <<req, wk, hs, pub>>
logVars == <<claimed, reads, clock>>
vars == <<queue, jobs, history, ttl, inbox, sub, ledger, req, wk, hs, pub,
          claimed, reads, clock, hook>>

\* ------------------------------------------------------------------ events
\* AgentEvent.to_dict: the JSON object that is published and stored (the
\* timestamp is not modelled).
to_dict(event_type, run_id, project_id, step, data) ==
    [event |-> event_type, runId |-> run_id, projectId |-> project_id,
     step |-> step, data |-> data]

\* Process identifiers of the callers of EventPublisher.publish.
ReqProc(r) == <<"req", r>>
WkProc(w) == <<"wk", w>>
RealProc == <<"real", 0>>
MockProc == <<"mock", 0>>
Procs == {ReqProc(r) : r \in Requests} \cup {WkProc(w) : w \in Workers}
         \cup {RealProc}
Harnesses == {WkProc(w) : w \in Workers} \cup {RealProc, MockProc}

\* The coroutine in which a harness object publishes: the mock AgentHarness
\* of _simulate_session runs inside the RealAgentHarness that built it.
Owner(h) == IF h = MockProc THEN RealProc ELSE h

Subscribers == {1, 2}

\* ---------------------------------------------------- EventPublisher.publish
\* A bus on which a connection that went away holds up the delivery to the
\* others.
DeliverWhileAllOpen(box, msg) ==
    [s \in Subscribers |->
        IF /\ sub[s].attached /\ sub[s].project = msg.projectId
           /\ \A t \in Subscribers : sub[t].pc # "closed"
        THEN Append(box[s], msg) ELSE box[s]]

\* redis.publish(channel, msg): the message reaches every connection that is
\* subscribed to agent:events:{project_id} at this moment.
Deliver(box, msg) ==
    [s \in Subscribers |->
        IF sub[s].attached /\ sub[s].project = msg.projectId
        THEN Append(box[s], msg) ELSE box[s]]

\* First command of publish(): PUBLISH; LPUSH and EXPIRE are still to come.
PublishCmd(p, msg) ==
    /\ pub[p] = None
    /\ inbox' = Deliver(inbox, msg)
    /\ pub' = [pub EXCEPT ![p] = Some([msg |-> msg, stage |-> "lpush"])]

\* The clock's record of an append to the history of run k at this moment:
\* the time of the last append, and the number of appends that followed one
\* another at less than the retention time.
Appended(c, k) ==
    [c EXCEPT !.last[k] = c.now,
              !.kept[k] = IF c.last[k] # -1 /\ c.now - c.last[k] < HISTORY_TTL
                          THEN @ + 1 ELSE 1]

\* Second command of publish(): LPUSH agent:history:{run_id}. A key created
\* by LPUSH has no expiry; an existing key keeps its expiry.
PubLpush(p) ==
    /\ pub[p] # None
    /\ pub[p][1].stage = "lpush"
    /\ history' = [history EXCEPT ![pub[p][1].msg.runId] =
                       <<pub[p][1].msg>> \o @]
    /\ clock' = Appended(clock, pub[p][1].msg.runId)
    /\ pub' = [pub EXCEPT ![p] = Some([@[1] EXCEPT !.stage = "expire"])]
    /\ UNCHANGED <<queue, jobs, ttl, inbox, sub, ledger, req, wk, hs,
                   claimed, hook, reads>>

\* EXPIRE key seconds: sets the expiry of an existing key and does nothing
\* when the key does not exist (an empty list is no key).
ExpireCmd(t, k, seconds) ==
    IF history[k] = <<>> THEN t ELSE [t EXCEPT ![k] = seconds]

\* Third command of publish(): EXPIRE agent:history:{run_id} 3600.
PubExpire(p) ==
    /\ pub[p] # None
    /\ pub[p][1].stage = "expire"
    /\ ttl' = ExpireCmd(ttl, pub[p][1].msg.runId, HISTORY_TTL)
    /\ pub' = [pub EXCEPT ![p] = None]
    /\ UNCHANGED <<queue, jobs, history, inbox, sub, ledger, req, wk, hs,
                   claimed, hook, reads, clock>>

\* ------------------------------------------------------------------ JobQueue
\* A write of the status field that is lost.
HsetLost(h, key, status) == h

\* HSET key status v: creates the hash when it does not exist.
HsetStatus(h, key, status) == [h EXCEPT ![key].status = status]

\* JobQueue.get_job: one HGETALL; an empty reply is None. In the result,
\* data = <<>> stands for the empty object {} and <<job>> for the payload.
get_job(key) ==
    IF jobs[key].status = NoField /\ jobs[key].data = None
    THEN None
    ELSE Some([id |-> key,
               status |-> IF jobs[key].status = NoField THEN "unknown"
                          ELSE jobs[key].status,
               data |-> jobs[key].data])

\* The job dictionary start_agent_run builds and enqueue completes.
JobOf(r, project, mi) ==
    [id |-> JobIdOf(r), run_id |-> RunIdOf(r), project_id |-> project,
     max_iterations |-> mi, status |-> "queued"]

\* Pushing at the tail, the end BRPOP pops from.
Rpush(q, job) == Append(q, job)

\* LPUSH: the job becomes the head of the list.
Lpush(q, job) == <<job>> \o q

\* start_agent_run up to the first command of enqueue: LPUSH of the job.
EnqueueLpush(r, project, mi) ==
    /\ req[r].pc = "new"
    /\ queue' = Lpush(queue, JobOf(r, project, mi))
    /\ req' = [req EXCEPT ![r] = [pc |-> "enq_hset",
                                  job |-> Some(JobOf(r, project, mi))]]
    /\ UNCHANGED <<jobs, history, ttl, clock, inbox, sub, ledger, wk, hs, pub,
                   claimed, hook, reads>>

\* Second command of enqueue: HSET agent:job:{job_id} data, status=queued.
EnqueueHset(r) ==
    /\ req[r].pc = "enq_hset"
    /\ jobs' = [jobs EXCEPT ![req[r].job[1].id] =
                    [status |-> "queued", data |-> req[r].job]]
    /\ req' = [req EXCEPT ![r].pc = "publish"]
    /\ UNCHANGED <<queue, history, ttl, clock, inbox, sub, ledger, wk, hs, pub,
                   claimed, hook, reads>>

\* start_agent_run after enqueue: publish the step-0 queued event.
StartPublish(r) ==
    /\ req[r].pc = "publish"
    /\ PublishCmd(ReqProc(r),
                  to_dict("status", req[r].job[1].run_id,
                          req[r].job[1].project_id, 0,
                          [status |-> "queued"]))
    /\ req' = [req EXCEPT ![r].pc = "respond"]
    /\ UNCHANGED <<queue, jobs, history, ttl, clock, sub, ledger, wk, hs,
                   claimed, hook, reads>>

\* start_agent_run returns RunResponse(run_id, status=QUEUED).
StartReturn(r) ==
    /\ req[r].pc = "respond"
    /\ pub[ReqProc(r)] = None
    /\ req' = [req EXCEPT ![r].pc = "returned"]
    /\ UNCHANGED <<queue, jobs, history, ttl, clock, inbox, sub, ledger, wk, hs,
                   pub, claimed, hook, reads>>

\* stop_agent_run(run_id): job_queue.complete(run_id, "cancelled"). The
\* caller passes the identifier start_agent_run returned, or any other string.
stop_agent_run(key) ==
    /\ jobs' = HsetStatus(jobs, key, "cancelled")
    /\ UNCHANGED <<queue, history, ttl, clock, inbox, sub, ledger, req, wk, hs,
                   pub, claimed, hook, reads>>

\* Identifiers a client of the API can pass: those start_agent_run has
\* returned, and a string that names nothing.
ClientIds == {RunIdOf(r) : r \in {q \in Requests : req[q].pc = "returned"}}
             \cup {OtherId}

\* ---------------------------------------------------------------- run_worker
\* Reading the tail element without removing it.
BrpopRestKept(q) == q

\* What BRPOP leaves of a non-empty list: everything but its tail element.
BrpopRest(q) == SubSeq(q, 1, Len(q) - 1)

\* JobQueue.dequeue, first command: BRPOP pops the tail of the list.
DequeuePop(w) ==
    /\ wk[w].pc = "dequeue"
    /\ queue # <<>>
    /\ queue' = BrpopRest(queue)
    /\ wk' = [wk EXCEPT ![w] = [pc |-> "deq_hset",
                                job |-> Some(queue[Len(queue)]),
                                result |-> "none"]]
    /\ claimed' = Append(claimed, <<w, queue[Len(queue)].id>>)
    /\ UNCHANGED <<jobs, history, ttl, clock, inbox, sub, ledger, req, hs, pub,
                   reads, hook>>

\* BRPOP times out after 5 s on an empty list: dequeue returns None and the
\* worker loops.
DequeueTimeout(w) ==
    /\ wk[w].pc = "dequeue"
    /\ queue = <<>>
    /\ UNCHANGED vars

\* JobQueue.dequeue, second command: HSET status running; the job is
\* returned to run_worker.
DequeueHset(w) ==
    /\ wk[w].pc = "deq_hset"
    /\ jobs' = HsetStatus(jobs, wk[w].job[1].id, "running")
    /\ wk' = [wk EXCEPT ![w].pc = "run"]
    /\ UNCHANGED <<queue, history, ttl, clock, inbox, sub, ledger, req, hs, pub,
                   claimed, hook, reads>>

\* run_worker around harness.run(), seen from the queue: the call returns
\* (complete with "completed") or raises (complete with "failed").
HarnessOutcome(w) ==
    /\ wk[w].pc = "run"
    /\ \E outcome \in {"completed", "failed"} :
        wk' = [wk EXCEPT ![w].pc = "complete", ![w].result = outcome]
    /\ UNCHANGED <<queue, jobs, history, ttl, clock, inbox, sub, ledger, req, hs,
                   pub, claimed, hook, reads>>

\* run_worker: job_queue.complete(job["id"], status), then back to dequeue.
WorkerComplete(w) ==
    /\ wk[w].pc = "complete"
    /\ jobs' = HsetStatus(jobs, wk[w].job[1].id, wk[w].result)
    /\ wk' = [wk EXCEPT ![w].pc = "dequeue", ![w].job = None]
    /\ UNCHANGED <<queue, history, ttl, clock, inbox, sub, ledger, req, hs, pub,
                   claimed, hook, reads>>

\* -------------------------------------------------------------- the ledger
\* feature_list.json of a project directory: missing, not JSON, a list of
\* features (their "passes" flags) or an object.
LedgerMissing == [kind |-> "missing"]
LedgerMalformed == [kind |-> "malformed"]
LedgerList(flags) == [kind |-> "list", flags |-> flags]
LedgerDict(total, passing, features) ==
    [kind |-> "dict", total |-> total, passing |-> passing,
     features |-> features]

ZeroProgress == [total |-> 0, passing |-> 0, pending |-> 0]

Passing(flags) == Cardinality({i \in 1..Len(flags) : flags[i]})

\* AgentHarness.get_progress
get_progress(L) ==
    CASE L.kind = "missing" -> ZeroProgress
      [] L.kind = "malformed" -> ZeroProgress
      [] L.kind = "list" ->
            [total |-> Len(L.flags), passing |-> Passing(L.flags),
             pending |-> Len(L.flags) - Passing(L.flags)]
      [] L.kind = "dict" ->
            [total |-> L.total, passing |-> L.passing,
             pending |-> L.total - L.passing]

\* AgentHarness.is_first_run
is_first_run(L) == L.kind = "missing"

\* Testing pending alone, without total > 0.
AllPassingNoTotal(progress) == progress.pending = 0

\* Testing the passing count where the pending count is meant.
AllPassingWrongField(progress) == progress.passing = 0 /\ progress.total > 0

\* The condition under which the loop emits the complete event.
AllPassing(progress) == progress.pending = 0 /\ progress.total > 0

\* A limit that lets one more session through.
LimitReachedLate(mi, session) == Truthy(mi) /\ session > mi[1] + 1

\* The condition under which the loop emits status=paused.
LimitReached(mi, session) == Truthy(mi) /\ session > mi[1]

\* ------------------------------------------------------------- AgentHarness
\* AgentHarness.__init__
HarnessNew(run_id, project_id, mi) ==
    [pc |-> "run", run_id |-> run_id, project_id |-> project_id,
     max_iterations |-> mi, step |-> 0, status |-> "queued",
     features_completed |-> 0, commits_made |-> 0, session |-> 1,
     next_feature |-> 0, idx |-> 0, error |-> ""]

NoHarness == [HarnessNew(OtherId, "p1", None) EXCEPT !.pc = "none"]

\* An emit that publishes with the step counter as it is.
EmitSameStep(h, rec, event_type, data, pc) ==
    /\ hs' = [hs EXCEPT ![h] = [rec EXCEPT !.pc = pc]]
    /\ PublishCmd(Owner(h), to_dict(event_type, rec.run_id, rec.project_id,
                                    rec.step, data))

\* AgentHarness.emit up to its first command: the step counter is incremented
\* and the event is PUBLISHed; rec is the harness after the synchronous code
\* that precedes the emit and pc the position after it.
Emit(h, rec, event_type, data, pc) ==
    /\ hs' = [hs EXCEPT ![h] = [rec EXCEPT !.step = rec.step + 1, !.pc = pc]]
    /\ PublishCmd(Owner(h), to_dict(event_type, rec.run_id, rec.project_id,
                                    rec.step + 1, data))

\* A loop top that reads the ledger before it looks at the limit.
LoopTopLedgerFirst(h, rec) ==
    LET progress == get_progress(ledger[rec.project_id]) IN
    /\ reads' = Append(reads, [run_id |-> rec.run_id, session |-> rec.session,
                               progress |-> progress])
    /\ IF AllPassing(progress)
       THEN Emit(h, rec, "complete",
                 [featuresCompleted |-> rec.features_completed,
                  commitsMade |-> rec.commits_made,
                  progress |-> progress], "loop_exit")
       ELSE IF LimitReached(rec.max_iterations, rec.session)
       THEN Emit(h, rec, "status", [status |-> "paused"], "loop_exit")
       ELSE /\ rec.session <= MaxSessions
            /\ Emit(h, rec, "status",
                    [status |-> "running", session |-> rec.session,
                     progress |-> progress], "session")

\* Top of the while loop of run_coding_loop, entered with harness rec.
\* A run without effective limit is followed for MaxSessions sessions.
LoopTop(h, rec) ==
    IF LimitReached(rec.max_iterations, rec.session)
    THEN /\ Emit(h, rec, "status", [status |-> "paused"], "loop_exit")
         /\ UNCHANGED reads
    ELSE LET progress == get_progress(ledger[rec.project_id]) IN
         /\ reads' = Append(reads, [run_id |-> rec.run_id,
                                    session |-> rec.session,
                                    progress |-> progress])
         /\ IF AllPassing(progress)
            THEN Emit(h, rec, "complete",
                      [featuresCompleted |-> rec.features_completed,
                       commitsMade |-> rec.commits_made,
                       progress |-> progress], "loop_exit")
            ELSE /\ rec.session <= MaxSessions
                 /\ Emit(h, rec, "status",
                         [status |-> "running", session |-> rec.session,
                          progress |-> progress], "session")

\* _simulate_initializer: the eight scripted tool events.
InitializerSteps ==
    << <<"tool_call", "bash">>, <<"tool_result", "Created directories">>,
       <<"tool_call", "write">>, <<"tool_result", "Created feature_list.json">>,
       <<"tool_call", "write">>, <<"tool_result", "Created init.sh">>,
       <<"tool_call", "bash">>, <<"tool_result", "Initialized git repository">> >>

\* _run_coding_session: the five scripted tool events.
SessionSteps ==
    << <<"tool_call", "read">>, <<"tool_result", "Requirements loaded">>,
       <<"tool_call", "write">>, <<"tool_result", "Implementation complete">>,
       <<"tool_call", "bash">> >>

StepData(st) ==
    IF st[1] = "tool_call" THEN [name |-> st[2]] ELSE [output |-> st[2]]

\* run_initializer: the status event announcing the initializer.
RunInitializer(h, rec) ==
    /\ Emit(h, [rec EXCEPT !.idx = 1], "status",
            [status |-> "initializing"], "init_steps")
    /\ UNCHANGED <<ledger, reads>>

\* _simulate_initializer, one scripted event per step.
InitializerStep(h) ==
    /\ hs[h].pc = "init_steps"
    /\ pub[Owner(h)] = None
    /\ LET i == hs[h].idx IN
       Emit(h, [hs[h] EXCEPT !.idx = i + 1], InitializerSteps[i][1],
            StepData(InitializerSteps[i]),
            IF i = Len(InitializerSteps) THEN "init_write" ELSE "init_steps")
    /\ UNCHANGED <<queue, jobs, history, ttl, clock, sub, ledger, req, wk,
                   claimed, hook, reads>>

\* _simulate_initializer: write the mock feature_list.json (200 features,
\* none passing) and emit status=initialized with the progress read back.
InitializerWrite(h) ==
    /\ hs[h].pc = "init_write"
    /\ pub[Owner(h)] = None
    /\ ledger' = [ledger EXCEPT ![hs[h].project_id] =
                      LedgerList([i \in 1..INITIALIZER_FEATURES |-> FALSE])]
    /\ Emit(h, hs[h], "status",
            [status |-> "initialized",
             progress |-> get_progress(ledger'[hs[h].project_id])],
            "init_done")
    /\ UNCHANGED <<queue, jobs, history, ttl, clock, sub, req, wk, claimed, hook, reads>>

\* _run_coding_session: pick the next feature and emit feature started.
SessionStart(h) ==
    /\ hs[h].pc = "session"
    /\ pub[Owner(h)] = None
    /\ LET next_feature == get_progress(ledger[hs[h].project_id]).passing + 1
       IN Emit(h, [hs[h] EXCEPT !.next_feature = next_feature, !.idx = 1],
               "feature",
               [action |-> "started", featureId |-> next_feature],
               "sess_steps")
    /\ UNCHANGED <<queue, jobs, history, ttl, clock, sub, ledger, req, wk,
                   claimed, hook, reads>>

\* _run_coding_session, one scripted event per step.
SessionStep(h) ==
    /\ hs[h].pc = "sess_steps"
    /\ pub[Owner(h)] = None
    /\ LET i == hs[h].idx IN
       Emit(h, [hs[h] EXCEPT !.idx = i + 1], SessionSteps[i][1],
            StepData(SessionSteps[i]),
            IF i = Len(SessionSteps) THEN "sess_test" ELSE "sess_steps")
    /\ UNCHANGED <<queue, jobs, history, ttl, clock, sub, ledger, req, wk,
                   claimed, hook, reads>>

\* _run_coding_session: the test event.
SessionTest(h) ==
    /\ hs[h].pc = "sess_test"
    /\ pub[Owner(h)] = None
    /\ Emit(h, hs[h], "test",
            [featureId |-> hs[h].next_feature, status |-> "passed"],
            "sess_update")
    /\ UNCHANGED <<queue, jobs, history, ttl, clock, sub, ledger, req, wk,
                   claimed, hook, reads>>

\* features[next_feature - 1]["passes"] = True succeeds on a JSON list that
\* has that index (next_feature - 1 may be negative: Python counts from the
\* end); json.load fails on a missing or malformed file, the subscript fails
\* on an object (its keys are strings) and on an index outside the list.
UpdateRaises(L, next_feature) ==
    \/ L.kind # "list"
    \/ next_feature - 1 >= Len(L.flags)
    \/ next_feature - 1 < 0 - Len(L.flags)

UpdateError(L, next_feature) ==
    CASE L.kind = "missing" -> "FileNotFoundError"
      [] L.kind = "malformed" -> "JSONDecodeError"
      [] L.kind = "dict" -> "KeyError"
      [] OTHER -> "IndexError"

PyIndex(flags, i) == IF i >= 0 THEN i + 1 ELSE Len(flags) + i + 1

\* The ledger after features[next_feature - 1]["passes"] = True.
UpdatedLedger(L, next_feature) ==
    LedgerList([L.flags EXCEPT ![PyIndex(L.flags, next_feature - 1)] = TRUE])

\* _run_coding_session: rewrite feature_list.json and emit the commit event;
\* an exception of the rewrite leaves the session.
SessionUpdate(h) ==
    /\ hs[h].pc = "sess_update"
    /\ pub[Owner(h)] = None
    /\ LET L == ledger[hs[h].project_id] IN
       IF UpdateRaises(L, hs[h].next_feature)
       THEN /\ hs' = [hs EXCEPT ![h].pc = "raising",
                                ![h].error =
                                    UpdateError(L, hs[h].next_feature)]
            /\ UNCHANGED <<ledger, inbox, pub>>
       ELSE /\ ledger' = [ledger EXCEPT ![hs[h].project_id] =
                              UpdatedLedger(L, hs[h].next_feature)]
            /\ Emit(h, hs[h], "commit",
                    [featureId |-> hs[h].next_feature], "sess_commit")
    /\ UNCHANGED <<queue, jobs, history, ttl, clock, sub, req, wk, claimed, hook, reads>>

\* _run_coding_session: count the feature and the commit and emit feature
\* completed; the session returns when that event is published.
SessionFinish(h) ==
    /\ hs[h].pc = "sess_commit"
    /\ pub[Owner(h)] = None
    /\ Emit(h, [hs[h] EXCEPT !.features_completed = @ + 1,
                             !.commits_made = @ + 1],
            "feature",
            [action |-> "completed", featureId |-> hs[h].next_feature],
            "sess_done")
    /\ UNCHANGED <<queue, jobs, history, ttl, clock, sub, ledger, req, wk,
                   claimed, hook, reads>>

\* --------------------------------------- run_worker around AgentHarness.run
\* run_worker builds the harness and calls run(): status RUNNING, then the
\* initializer when feature_list.json does not exist, else the coding loop.
RunStart(w) ==
    /\ wk[w].pc = "run"
    /\ LET job == wk[w].job[1]
           rec == [HarnessNew(job.run_id, job.project_id, job.max_iterations)
                       EXCEPT !.status = "running"]
       IN IF is_first_run(ledger[job.project_id])
          THEN RunInitializer(WkProc(w), rec)
          ELSE LoopTop(WkProc(w), rec) /\ UNCHANGED ledger
    /\ wk' = [wk EXCEPT ![w].pc = "running"]
    /\ UNCHANGED <<queue, jobs, history, ttl, clock, sub, req, claimed, hook>>

\* run(): run_initializer has returned, run_coding_loop starts (session 1).
AfterInitializer(w) ==
    /\ wk[w].pc = "running"
    /\ hs[WkProc(w)].pc = "init_done"
    /\ pub[WkProc(w)] = None
    /\ LoopTop(WkProc(w), hs[WkProc(w)])
    /\ UNCHANGED <<queue, jobs, history, ttl, clock, sub, ledger, req, wk, claimed, hook>>

\* run_coding_loop: the session returned; session += 1, the auto-continue
\* sleep, and the top of the loop again.
NextSession(w) ==
    /\ wk[w].pc = "running"
    /\ hs[WkProc(w)].pc = "sess_done"
    /\ pub[WkProc(w)] = None
    /\ LoopTop(WkProc(w), [hs[WkProc(w)] EXCEPT !.session = @ + 1])
    /\ UNCHANGED <<queue, jobs, history, ttl, clock, sub, ledger, req, wk, claimed, hook>>

\* run(): the loop was left by break; status COMPLETED and run() returns, so
\* run_worker goes on to complete(job["id"], "completed").
RunReturn(w) ==
    /\ wk[w].pc = "running"
    /\ hs[WkProc(w)].pc = "loop_exit"
    /\ pub[WkProc(w)] = None
    /\ hs' = [hs EXCEPT ![WkProc(w)].status = "completed",
                        ![WkProc(w)].pc = "returned"]
    /\ wk' = [wk EXCEPT ![w].pc = "complete", ![w].result = "completed"]
    /\ UNCHANGED <<queue, jobs, history, ttl, clock, inbox, sub, ledger, req, pub,
                   claimed, hook, reads>>

\* run(), except branch: status FAILED and the error event.
RunExcept(w) ==
    /\ wk[w].pc = "running"
    /\ hs[WkProc(w)].pc = "raising"
    /\ pub[WkProc(w)] = None
    /\ Emit(WkProc(w), [hs[WkProc(w)] EXCEPT !.status = "failed"], "error",
            [type |-> hs[WkProc(w)].error], "raised")
    /\ UNCHANGED <<queue, jobs, history, ttl, clock, sub, ledger, req, wk,
                   claimed, hook, reads>>

\* run() re-raises; run_worker catches and goes on to
\* complete(job["id"], "failed").
RunRaise(w) ==
    /\ wk[w].pc = "running"
    /\ hs[WkProc(w)].pc = "raised"
    /\ pub[WkProc(w)] = None
    /\ wk' = [wk EXCEPT ![w].pc = "complete", ![w].result = "failed"]
    /\ UNCHANGED <<queue, jobs, history, ttl, clock, inbox, sub, ledger, req, hs,
                   pub, claimed, hook, reads>>

\* --------------------------------------------------------- RealAgentHarness
\* RealAgentHarness.get_progress
real_get_progress(L) ==
    CASE L.kind = "missing" -> ZeroProgress
      [] L.kind = "malformed" -> ZeroProgress
      [] L.kind = "list" ->
            [total |-> Len(L.flags), passing |-> Passing(L.flags),
             pending |-> Len(L.flags) - Passing(L.flags)]
      [] L.kind = "dict" ->
            [total |-> Len(L.features), passing |-> Passing(L.features),
             pending |-> Len(L.features) - Passing(L.features)]

\* RealAgentHarness.__init__; sdk is CLAUDE_SDK_AVAILABLE and api_key tells
\* whether ANTHROPIC_API_KEY is set. attempts counts run_agent_session calls
\* and reported logs what the engine reported.
RealNew(mi, app_spec, sdk, api_key) ==
    [pc |-> "setup", run_id |-> RealRunId, project_id |-> "p1",
     max_iterations |-> mi, app_spec |-> app_spec, sdk |-> sdk,
     api_key |-> api_key, step |-> 0, features_completed |-> 0,
     commits_made |-> 0, session |-> 0, is_first |-> FALSE, n |-> 0,
     attempts |-> 0, reported |-> <<>>, error |-> ""]

\* Leaving the session index as it is when the loop is entered again.
NextIndexKept(session) == session

\* run(): session += 1 at the top of every iteration.
NextIndex(session) == session + 1

\* Top of the while loop of RealAgentHarness.run, entered with harness rec.
RealLoopTop(rec) ==
    LET r1 == [rec EXCEPT !.session = NextIndex(@)] IN
    IF LimitReached(r1.max_iterations, r1.session)
    THEN /\ Emit(RealProc, r1, "status", [status |-> "paused"], "final")
         /\ UNCHANGED reads
    ELSE LET progress == real_get_progress(ledger[r1.project_id]) IN
         /\ reads' = Append(reads, [run_id |-> r1.run_id,
                                    session |-> r1.session,
                                    progress |-> progress])
         /\ IF AllPassing(progress)
            THEN Emit(RealProc, r1, "complete",
                      [featuresCompleted |-> r1.features_completed,
                       commitsMade |-> r1.commits_made,
                       progress |-> progress], "final")
            ELSE /\ r1.session <= MaxSessions
                 /\ Emit(RealProc, r1, "status",
                         [status |-> "running", session |-> r1.session,
                          progress |-> progress,
                          isInitializer |-> (r1.is_first /\ r1.session = 1)],
                         "agent_session")

\* run(): setup_project, which emits status=setup when there is a seed
\* specification; without one run() goes straight on to the loop.
RealSetup(mi, app_spec, sdk, api_key) ==
    /\ hs[RealProc].pc = "none"
    /\ LET rec == RealNew(mi, app_spec, sdk, api_key) IN
       IF app_spec
       THEN /\ Emit(RealProc, rec, "status", [status |-> "setup"], "enter")
            /\ UNCHANGED reads
       ELSE RealLoopTop([rec EXCEPT
                !.is_first = is_first_run(ledger[rec.project_id])])
    /\ UNCHANGED <<queue, jobs, history, ttl, clock, sub, ledger, req, wk, claimed, hook>>

\* run() after setup_project: is_first_run, session = 0, the loop.
RealEnter ==
    /\ hs[RealProc].pc = "enter"
    /\ pub[RealProc] = None
    /\ RealLoopTop([hs[RealProc] EXCEPT
           !.is_first = is_first_run(ledger[hs[RealProc].project_id])])
    /\ UNCHANGED <<queue, jobs, history, ttl, clock, sub, ledger, req, wk, claimed, hook>>

\* _simulate_session builds a fresh AgentHarness with the same run id; the
\* initializer prompt contains "first session", the coding prompt does not.
MockNew(rec) ==
    [HarnessNew(rec.run_id, rec.project_id, Some(1)) EXCEPT
        !.pc = IF rec.is_first /\ rec.session = 1
               THEN "init_steps" ELSE "session",
        !.idx = 1]

\* run_agent_session up to its first event: status=simulating without the
\* SDK; with it, create_claude_client (which raises without an API key) and
\* the status=running event.
RealAgentSession ==
    /\ hs[RealProc].pc = "agent_session"
    /\ pub[RealProc] = None
    /\ LET rec == [hs[RealProc] EXCEPT !.attempts = @ + 1] IN
       IF ~rec.sdk
       THEN /\ hs' = [hs EXCEPT
                        ![RealProc] = [rec EXCEPT !.step = @ + 1,
                                                  !.pc = "simulating"],
                        ![MockProc] = MockNew(rec)]
            /\ PublishCmd(RealProc,
                          to_dict("status", rec.run_id, rec.project_id,
                                  rec.step + 1, [status |-> "simulating"]))
       ELSE IF ~rec.api_key
       THEN /\ hs' = [hs EXCEPT ![RealProc] =
                          [rec EXCEPT !.pc = "crashed",
                                      !.error = "ValueError"]]
            /\ UNCHANGED <<inbox, pub>>
       ELSE Emit(RealProc, rec, "status",
                 [status |-> "running", session |-> rec.session,
                  message |-> "Sending prompt to Claude..."], "query")
    /\ UNCHANGED <<queue, jobs, history, ttl, clock, sub, ledger, req, wk,
                   claimed, hook, reads>>

\* _simulate_session returns: the counters of the mock harness are copied,
\* and run() emits the auto-continue status.
RealSimulateReturn ==
    /\ hs[RealProc].pc = "simulating"
    /\ hs[MockProc].pc \in {"init_done", "sess_done"}
    /\ pub[RealProc] = None
    /\ Emit(RealProc,
            [hs[RealProc] EXCEPT
                !.features_completed = hs[MockProc].features_completed,
                !.commits_made = hs[MockProc].commits_made],
            "status",
            [status |-> "continuing", session |-> hs[RealProc].session],
            "continued")
    /\ UNCHANGED <<queue, jobs, history, ttl, clock, sub, ledger, req, wk,
                   claimed, hook, reads>>

\* An exception of the simulated session is outside the try block of
\* run_agent_session and run() has no handler: it leaves run().
RealSimulateRaise ==
    /\ hs[RealProc].pc = "simulating"
    /\ hs[MockProc].pc = "raising"
    /\ hs' = [hs EXCEPT ![RealProc].pc = "crashed",
                        ![RealProc].error = hs[MockProc].error]
    /\ UNCHANGED <<queue, jobs, history, ttl, clock, inbox, sub, ledger, req, wk,
                   pub, claimed, hook, reads>>

\* The text of a tool result, as far as the marker "blocked" goes: at is the
\* position of the first character of the marker (0: the text has none) and
\* upper tells whether the marker is written in capitals.
RESULT_LIMIT == 500
MarkerLen == 7
NoText == [at |-> 0, upper |-> FALSE]

\* str(content)[:500]: a marker that does not end within the first 500
\* characters is cut.
Truncated(c) ==
    IF c.at > 0 /\ c.at + MarkerLen - 1 > RESULT_LIMIT THEN NoText ELSE c

\* "blocked" in result.lower(), result being the truncated text.
Blocked(m) ==
    LET lower == [Truncated(m.content) EXCEPT !.upper = FALSE]
    IN lower.at > 0 /\ ~lower.upper

\* What the engine can report in its response stream: a text block, a tool
\* invocation, a tool result (its text without the marker, with it at the
\* start in capitals, or with it across the 500th character; is_error or
\* not), or a message that run_agent_session does not handle.
EngineReports ==
    {[kind |-> "text", content |-> NoText, is_error |-> FALSE],
     [kind |-> "tool_use", content |-> NoText, is_error |-> FALSE],
     [kind |-> "other", content |-> NoText, is_error |-> FALSE]}
    \cup {[kind |-> "tool_result", content |-> c, is_error |-> e] :
             c \in {NoText, [at |-> 1, upper |-> TRUE],
                    [at |-> RESULT_LIMIT - MarkerLen + 2, upper |-> FALSE]},
             e \in BOOLEAN}

\* run_agent_session: the event a reported block is translated into. The
\* output of a result that is neither blocked nor an error is the literal
\* "Done", a text without the marker.
ReportType(m) ==
    CASE m.kind = "text" -> "message"
      [] m.kind = "tool_use" -> "tool_call"
      [] m.kind = "tool_result" /\ Blocked(m) -> "tool_result"
      [] m.kind = "tool_result" /\ m.is_error -> "error"
      [] OTHER -> "tool_result"

ReportData(m) ==
    CASE m.kind = "text" -> [text |-> "text"]
      [] m.kind = "tool_use" -> [name |-> "tool"]
      [] m.kind = "tool_result" /\ Blocked(m) ->
            [blocked |-> TRUE, output |-> Truncated(m.content)]
      [] m.kind = "tool_result" /\ m.is_error ->
            [output |-> Truncated(m.content)]
      [] OTHER -> [output |-> NoText]

\* run_agent_session: one message of client.receive_response().
RealEngineMsg(m) ==
    /\ hs[RealProc].pc = "query"
    /\ pub[RealProc] = None
    /\ hs[RealProc].n < MaxEngineMsgs
    /\ LET rec == [hs[RealProc] EXCEPT !.n = @ + 1,
                                       !.reported = Append(@, m)] IN
       IF m.kind = "other"
       THEN hs' = [hs EXCEPT ![RealProc] = rec] /\ UNCHANGED <<inbox, pub>>
       ELSE Emit(RealProc, rec, ReportType(m), ReportData(m), "query")
    /\ UNCHANGED <<queue, jobs, history, ttl, clock, sub, ledger, req, wk,
                   claimed, hook, reads>>

\* The engine works in the project directory during the session: it creates
\* feature_list.json when asked to initialize, or marks a feature passing.
\* (CODING_PROMPT: "find the next failing feature ... marking the feature as
\* passes: true").
EngineWrites ==
    /\ hs[RealProc].pc = "query"
    /\ LET L == ledger[hs[RealProc].project_id] IN
       \/ /\ L.kind = "missing"
          /\ ledger' = [ledger EXCEPT ![hs[RealProc].project_id] =
                            LedgerList([i \in 1..MaxFeatures |-> FALSE])]
       \/ /\ L.kind = "list"
          /\ \E i \in 1..Len(L.flags) :
                /\ ~L.flags[i]
                /\ \A j \in 1..(i - 1) : L.flags[j]
                /\ ledger' = [ledger EXCEPT ![hs[RealProc].project_id] =
                                  LedgerList([L.flags EXCEPT ![i] = TRUE])]
    /\ UNCHANGED <<queue, jobs, history, ttl, clock, inbox, sub, req, wk, hs, pub,
                   claimed, hook, reads>>

\* run_agent_session returns ("continue", text); run() emits the
\* auto-continue status.
RealEngineEnd ==
    /\ hs[RealProc].pc = "query"
    /\ pub[RealProc] = None
    /\ Emit(RealProc, hs[RealProc], "status",
            [status |-> "continuing", session |-> hs[RealProc].session],
            "continued")
    /\ UNCHANGED <<queue, jobs, history, ttl, clock, sub, ledger, req, wk,
                   claimed, hook, reads>>

\* client.query or the response stream raises: the except branch of
\* run_agent_session emits the error event.
RealEngineFail ==
    /\ hs[RealProc].pc = "query"
    /\ pub[RealProc] = None
    /\ Emit(RealProc, hs[RealProc], "error", [type |-> "Exception"],
            "session_error")
    /\ UNCHANGED <<queue, jobs, history, ttl, clock, sub, ledger, req, wk,
                   claimed, hook, reads>>

\* run_agent_session returned ("error", message): run() emits the status
\* that announces the retry.
RealRetry ==
    /\ hs[RealProc].pc = "session_error"
    /\ pub[RealProc] = None
    /\ Emit(RealProc, hs[RealProc], "status",
            [status |-> "error", message |-> "Session failed, will retry..."],
            "retrying")
    /\ UNCHANGED <<queue, jobs, history, ttl, clock, sub, ledger, req, wk,
                   claimed, hook, reads>>

\* run(): after the sleep of 3 s, the next iteration of the loop.
RealNextSession ==
    /\ hs[RealProc].pc \in {"continued", "retrying"}
    /\ pub[RealProc] = None
    /\ RealLoopTop(hs[RealProc])
    /\ UNCHANGED <<queue, jobs, history, ttl, clock, sub, ledger, req, wk, claimed, hook>>

\* run() after the loop: the final status=complete event.
RealFinal ==
    /\ hs[RealProc].pc = "final"
    /\ pub[RealProc] = None
    /\ Emit(RealProc, hs[RealProc], "status",
            [status |-> "complete", totalSessions |-> hs[RealProc].session,
             progress |-> real_get_progress(ledger[hs[RealProc].project_id])],
            "finished")
    /\ UNCHANGED <<queue, jobs, history, ttl, clock, sub, ledger, req, wk,
                   claimed, hook, reads>>

\* run() returns.
RealDone ==
    /\ hs[RealProc].pc = "finished"
    /\ pub[RealProc] = None
    /\ hs' = [hs EXCEPT ![RealProc].pc = "done"]
    /\ UNCHANGED <<queue, jobs, history, ttl, clock, inbox, sub, ledger, req, wk,
                   pub, claimed, hook, reads>>

\* ------------------------------------------------------------- subscribers
RECURSIVE Reverse(_)
Reverse(q) == IF q = <<>> THEN <<>> ELSE Append(Reverse(Tail(q)), Head(q))

\* get_run_events: LRANGE agent:history:{run_id} 0 -1, reversed, so that the
\* entry pushed first comes first.
RunEvents(run_id) == Reverse(history[run_id])

\* A client calls get_run_events for a run and keeps the reply.
GetRunEvents(s, run_id) ==
    /\ sub[s].pc = "new"
    /\ sub' = [sub EXCEPT ![s].pc = "replayed", ![s].run_id = run_id,
                          ![s].replay = RunEvents(run_id)]
    /\ UNCHANGED <<queue, jobs, history, ttl, clock, inbox, ledger, req, wk, hs,
                   pub, claimed, hook, reads>>

\* The number of PUBLISH commands executed so far on the channel of a
\* project: the events appended to the histories and those whose publish()
\* is between PUBLISH and LPUSH.
Published(project) ==
    Cardinality({ki \in UNION {{<<k, i>> : i \in 1..Len(history[k])} :
                                  k \in DOMAIN history} :
                    history[ki[1]][ki[2]].projectId = project})
    + Cardinality({p \in DOMAIN pub : /\ pub[p] # None
                                       /\ pub[p][1].stage = "lpush"
                                       /\ pub[p][1].msg.projectId = project})

\* websocket_endpoint / EventSubscriber.subscribe: SUBSCRIBE to the channel
\* of the project; from now on PUBLISH delivers to this connection. The
\* fields replayed and mid_run note whether the client had read the history
\* before and whether a run was in progress at that moment, and since how
\* many events had been published on the channel before.
Subscribe(s, project) ==
    /\ sub[s].pc \in {"new", "replayed"}
    /\ sub' = [sub EXCEPT ![s].pc = "live", ![s].attached = TRUE,
                          ![s].project = project,
                          ![s].replayed = (sub[s].pc = "replayed"),
                          ![s].since = Published(project),
                          ![s].mid_run = (\E w \in Workers :
                                              wk[w].pc = "running")]
    /\ UNCHANGED <<queue, jobs, history, ttl, clock, inbox, ledger, req, wk, hs,
                   pub, claimed, hook, reads>>

\* stream_events(run_id): get_job(run_id), 404 when it finds nothing; else
\* SUBSCRIBE to the channel of job["data"].get("project_id"), which is None
\* for a hash without data. The field since notes how many events had been
\* published on the channel of the run's project at this moment.
stream_events(s, run_id) ==
    /\ sub[s].pc = "new"
    /\ LET job == get_job(run_id)
           moment == IF run_id \in RunIds
                     THEN Published(req[CHOOSE r \in Requests :
                                           RunIdOf(r) = run_id].job[1].project_id)
                     ELSE 0
       IN sub' = [sub EXCEPT ![s] =
                     IF job = None
                     THEN [@ EXCEPT !.pc = "not_found", !.run_id = run_id,
                                    !.since = moment]
                     ELSE [@ EXCEPT !.pc = "streaming", !.attached = TRUE,
                                    !.run_id = run_id, !.since = moment,
                                    !.project =
                                        IF job[1].data = None THEN "None"
                                        ELSE job[1].data[1].project_id]]
    /\ UNCHANGED <<queue, jobs, history, ttl, clock, inbox, ledger, req, wk, hs,
                   pub, claimed, hook, reads>>

\* What event_generator yields for the messages of its subscription: an SSE
\* frame for every event whose runId is the run of the request.
SseFrames(s) ==
    LET mine == SelectSeq(inbox[s], LAMBDA e : e.runId = sub[s].run_id)
    IN [i \in 1..Len(mine) |-> [event |-> mine[i].event, data |-> mine[i]]]

\* The client goes away: the generator is closed and its finally clause
\* unsubscribes the channel.
Disconnect(s) ==
    /\ sub[s].pc = "live"
    /\ sub' = [sub EXCEPT ![s].pc = "closed", ![s].attached = FALSE]
    /\ UNCHANGED <<queue, jobs, history, ttl, clock, inbox, ledger, req, wk, hs,
                   pub, claimed, hook, reads>>

\* ------------------------------------------------------ the security hook
\* A command is a string: a sequence of characters, here of a blank, a
\* slash and three letters.
MaxCmdLen == 5
Chars == {" ", "/", "l", "s", "p"}
Commands == UNION {[1..n -> Chars] : n \in 0..MaxCmdLen}

\* ALLOWED_COMMANDS, each name as the sequence of its characters.
ALLOWED_COMMANDS ==
    {<<"l", "s">>, <<"c", "a", "t">>, <<"h", "e", "a", "d">>,
     <<"t", "a", "i", "l">>, <<"w", "c">>, <<"g", "r", "e", "p">>,
     <<"f", "i", "n", "d">>,
     <<"n", "p", "m">>, <<"n", "o", "d", "e">>, <<"n", "p", "x">>,
     <<"g", "i", "t">>,
     <<"p", "s">>, <<"l", "s", "o", "f">>, <<"s", "l", "e", "e", "p">>,
     <<"p", "k", "i", "l", "l">>,
     <<"t", "s", "c">>, <<"v", "i", "t", "e">>,
     <<"w", "e", "b", "p", "a", "c", "k">>}

\* str.strip(): the string without its leading and trailing whitespace.
Strip(s) ==
    LET inked == {i \in 1..Len(s) : s[i] # " "}
    IN IF inked = {} THEN <<>>
       ELSE SubSeq(s, CHOOSE i \in inked : \A j \in inked : i <= j,
                      CHOOSE i \in inked : \A j \in inked : i >= j)

\* str.split(): the maximal runs of characters that are not whitespace, in
\* order; no empty string is among them.
RECURSIVE Split(_)
Split(s) ==
    IF s = <<>> THEN <<>>
    ELSE IF Head(s) = " " THEN Split(Tail(s))
    ELSE LET blanks == {i \in 1..Len(s) : s[i] = " "}
             end == IF blanks = {} THEN Len(s) + 1
                    ELSE CHOOSE i \in blanks : \A j \in blanks : i <= j
         IN <<SubSeq(s, 1, end - 1)>> \o Split(SubSeq(s, end, Len(s)))

\* split('/')[0]: what precedes the first slash.
FirstComponent(token) ==
    LET slashes == {i \in 1..Len(token) : token[i] = "/"}
    IN IF slashes = {} THEN token
       ELSE SubSeq(token, 1,
                   (CHOOSE i \in slashes : \A j \in slashes : i <= j) - 1)

\* base_cmd.split('/')[-1]: what follows the last slash.
LastComponent(token) ==
    LET slashes == {i \in 1..Len(token) : token[i] = "/"}
    IN IF slashes = {} THEN token
       ELSE SubSeq(token,
                   (CHOOSE i \in slashes : \A j \in slashes : i >= j) + 1,
                   Len(token))

\* validate_bash_command: the verdict and the reason, a message given by its
\* pieces (<<>> is the empty string; the list of allowed commands that ends
\* the second message is not written out).
validate_bash_command(command) ==
    LET parts == Split(Strip(command)) IN
    IF parts = <<>>
    THEN [ok |-> FALSE, reason |-> <<"Empty command">>]
    ELSE IF parts[1] \in ALLOWED_COMMANDS
    THEN [ok |-> TRUE, reason |-> <<>>]
    ELSE IF /\ \E i \in 1..Len(parts[1]) : parts[1][i] = "/"
            /\ LastComponent(parts[1]) \in ALLOWED_COMMANDS
    THEN [ok |-> TRUE, reason |-> <<>>]
    ELSE [ok |-> FALSE,
          reason |-> <<"Command '", LastComponent(parts[1]),
                       "' not in allowlist. Allowed: ">>]

\* No call of the hook yet.
NoCall == [command |-> <<>>, called |-> FALSE,
           result |-> [ok |-> FALSE, reason |-> <<>>]]

\* create_claude_client installs security_hook = lambda cmd:
\* validate_bash_command(cmd): the client calls it with a command. The
\* function keeps no state, so one call is followed.
SecurityHook(command) ==
    /\ ~hook.called
    /\ hook' = [command |-> command, called |-> TRUE,
                result |-> validate_bash_command(command)]
    /\ UNCHANGED <<queue, jobs, history, ttl, clock, inbox, sub, ledger, req,
                   wk, hs, pub, claimed, reads>>

\* ------------------------------------------------------------ initial state
HistKeys == RunIds \cup {RealRunId}

\* feature_list.json as a run may find it.
BoolSeqs(n) == [1..n -> BOOLEAN]
LedgerChoices ==
    {LedgerMissing, LedgerMalformed}
    \cup {LedgerList(f) : f \in UNION {BoolSeqs(n) : n \in 0..MaxFeatures}}
    \cup {LedgerDict(t, p, f) : t \in 0..MaxFeatures, p \in 0..MaxFeatures,
                                f \in {<<>>, <<FALSE>>, <<TRUE>>}}

InitWith(L) ==
    /\ queue = <<>>
    /\ jobs = [k \in Keys |-> [status |-> NoField, data |-> None]]
    /\ history = [k \in HistKeys |-> <<>>]
    /\ ttl = [k \in HistKeys |-> -1]
    /\ inbox = [s \in Subscribers |-> <<>>]
    /\ sub = [s \in Subscribers |->
                 [pc |-> "new", attached |-> FALSE, project |-> "p1",
                  run_id |-> OtherId, replayed |-> FALSE,
                  mid_run |-> FALSE, replay |-> <<>>, since |-> 0]]
    /\ ledger = [p \in Projects |-> L]
    /\ req = [r \in Requests |-> [pc |-> "new", job |-> None]]
    /\ wk = [w \in Workers |-> [pc |-> "dequeue", job |-> None,
                                result |-> "none"]]
    /\ hs = [h \in Harnesses |-> NoHarness]
    /\ pub = [p \in Procs |-> None]
    /\ claimed = <<>>
    /\ reads = <<>>
    /\ clock = [now |-> 0, ticks |-> 0, last |-> [k \in HistKeys |-> -1],
                kept |-> [k \in HistKeys |-> 0]]
    /\ hook = NoCall

\* ------------------------------------------------------------ the pipeline
\* One start request, one worker running AgentHarness, stop requests.
RunJobs == 1
RunWorkers == 1

\* AgentHarness.get_progress reads of an object only total and passing.
AgentLedgerChoices ==
    {L \in LedgerChoices : L.kind = "dict" => L.features = <<>>}

Init == \E L \in AgentLedgerChoices : InitWith(L)

NextPipeline ==
    \/ \E r \in 1..RunJobs, mi \in MaxIterChoices : EnqueueLpush(r, "p1", mi)
    \/ \E r \in 1..RunJobs : EnqueueHset(r)
    \/ \E r \in 1..RunJobs : StartPublish(r)
    \/ \E r \in 1..RunJobs : StartReturn(r)
    \/ \E p \in Procs : PubLpush(p)
    \/ \E p \in Procs : PubExpire(p)
    \/ \E w \in 1..RunWorkers : DequeuePop(w)
    \/ \E w \in 1..RunWorkers : DequeueTimeout(w)
    \/ \E w \in 1..RunWorkers : DequeueHset(w)
    \/ \E w \in 1..RunWorkers : RunStart(w)
    \/ \E w \in 1..RunWorkers : InitializerStep(WkProc(w))
    \/ \E w \in 1..RunWorkers : InitializerWrite(WkProc(w))
    \/ \E w \in 1..RunWorkers : AfterInitializer(w)
    \/ \E w \in 1..RunWorkers : SessionStart(WkProc(w))
    \/ \E w \in 1..RunWorkers : SessionStep(WkProc(w))
    \/ \E w \in 1..RunWorkers : SessionTest(WkProc(w))
    \/ \E w \in 1..RunWorkers : SessionUpdate(WkProc(w))
    \/ \E w \in 1..RunWorkers : SessionFinish(WkProc(w))
    \/ \E w \in 1..RunWorkers : NextSession(w)
    \/ \E w \in 1..RunWorkers : RunReturn(w)
    \/ \E w \in 1..RunWorkers : RunExcept(w)
    \/ \E w \in 1..RunWorkers : RunRaise(w)
    \/ \E w \in 1..RunWorkers : WorkerComplete(w)

Next ==
    \/ NextPipeline
    \/ \E k \in ClientIds : stop_agent_run(k)

Spec == Init /\ [][Next]_vars

\* ------------------------------------------------ the event bus with a run
\* One run of at most one session, and a client that replays and subscribes.
InitBus == \E L \in {LedgerList(<<FALSE>>), LedgerList(<<TRUE>>)} : InitWith(L)

NextBus ==
    \/ EnqueueLpush(1, "p1", Some(1))
    \/ EnqueueHset(1)
    \/ StartPublish(1)
    \/ StartReturn(1)
    \/ \E p \in Procs : PubLpush(p)
    \/ \E p \in Procs : PubExpire(p)
    \/ \E k \in ClientIds \cap RunIds : GetRunEvents(1, k)
    \/ \E project \in Projects : Subscribe(1, project)
    \/ DequeuePop(1)
    \/ DequeueTimeout(1)
    \/ DequeueHset(1)
    \/ RunStart(1)
    \/ SessionStart(WkProc(1))
    \/ SessionStep(WkProc(1))
    \/ SessionTest(WkProc(1))
    \/ SessionUpdate(WkProc(1))
    \/ SessionFinish(WkProc(1))
    \/ NextSession(1)
    \/ RunReturn(1)
    \/ WorkerComplete(1)

SpecBus == InitBus /\ [][NextBus]_vars

\* ------------------------------------------------ RealAgentHarness on its own
\* One RealAgentHarness.run(), with or without the SDK.
NextReal ==
    \/ \E mi \in MaxIterChoices, app_spec \in BOOLEAN, sdk \in BOOLEAN,
          api_key \in BOOLEAN :
            (api_key => sdk) /\ RealSetup(mi, app_spec, sdk, api_key)
    \/ RealEnter
    \/ RealAgentSession
    \/ InitializerStep(MockProc)
    \/ InitializerWrite(MockProc)
    \/ SessionStart(MockProc)
    \/ SessionStep(MockProc)
    \/ SessionTest(MockProc)
    \/ SessionUpdate(MockProc)
    \/ SessionFinish(MockProc)
    \/ RealSimulateReturn
    \/ RealSimulateRaise
    \/ \E m \in EngineReports : RealEngineMsg(m)
    \/ EngineWrites
    \/ RealEngineEnd
    \/ RealEngineFail
    \/ RealRetry
    \/ RealNextSession
    \/ RealFinal
    \/ RealDone
    \/ PubLpush(RealProc)
    \/ PubExpire(RealProc)

\* RealAgentHarness.get_progress reads of an object only its "features".
RealLedgerChoices ==
    {L \in LedgerChoices : L.kind = "dict" => (L.total = 0 /\ L.passing = 0)}

InitReal == \E L \in RealLedgerChoices : InitWith(L)

SpecReal == InitReal /\ [][NextReal]_vars

\* ------------------------------------------------------ both run controllers
\* Either the pipeline with AgentHarness or one RealAgentHarness.run().
InitLoops == \E L \in LedgerChoices : InitWith(L)

NextLoops ==
    \/ /\ hs[RealProc].pc = "none"
       /\ ledger["p1"] \in AgentLedgerChoices
       /\ NextPipeline
    \/ /\ \A r \in Requests : req[r].pc = "new"
       /\ ledger["p1"] \in RealLedgerChoices
       /\ NextReal

SpecLoops == InitLoops /\ [][NextLoops]_vars

\* ------------------------------------------------- the job queue on its own
\* Producers, workers and stop requests; harness.run() is its outcome.
NextQueue ==
    \/ \E r \in Requests, mi \in {None, Some(1)} : EnqueueLpush(r, "p1", mi)
    \/ \E r \in Requests : EnqueueHset(r)
    \/ \E r \in Requests : StartPublish(r)
    \/ \E r \in Requests : StartReturn(r)
    \/ \E p \in Procs : PubLpush(p)
    \/ \E p \in Procs : PubExpire(p)
    \/ \E k \in ClientIds : stop_agent_run(k)
    \/ \E w \in Workers : DequeuePop(w)
    \/ \E w \in Workers : DequeueTimeout(w)
    \/ \E w \in Workers : DequeueHset(w)
    \/ \E w \in Workers : HarnessOutcome(w)
    \/ \E w \in Workers : WorkerComplete(w)

InitQueue == InitWith(LedgerMissing)

SpecQueue == InitQueue /\ [][NextQueue]_vars

\* ================================================================== claims
\* Events of a run that have been PUBLISHed: stored in the history or still
\* between PUBLISH and LPUSH.
Stored(k) == {history[k][i] : i \in 1..Len(history[k])}
InFlight(k) ==
    {pub[p][1].msg : p \in {q \in Procs : /\ pub[q] # None
                                          /\ pub[q][1].stage = "lpush"
                                          /\ pub[q][1].msg.runId = k}}
Emitted(k) == Stored(k) \cup InFlight(k)

Paused(e) == e.event = "status" /\ e.data = [status |-> "paused"]
RequestOfRun(k) == CHOOSE r \in Requests : RunIdOf(r) = k

\* C1: for every run id the stored events, oldest first, carry the steps
\* 1, 2, 3, ... without gap or repetition, and the only step-0 event is the
\* queued announcement.
EmittedSteps(k) == SelectSeq(RunEvents(k), LAMBDA e : e.step # 0)
C1_StepsGapless ==
    \A k \in HistKeys :
        /\ \A i \in 1..Len(EmittedSteps(k)) : EmittedSteps(k)[i].step = i
        /\ \A e \in Stored(k) :
              e.step = 0 => e.event = "status" /\ e.data = [status |-> "queued"]

\* C2: every job is returned by at most one dequeue call, and no two workers
\* hold the same job.
C2_ClaimedOnce ==
    /\ \A i, j \in 1..Len(claimed) :
          i # j => claimed[i][2] # claimed[j][2]
    /\ \A v, w \in Workers :
          (v # w /\ wk[v].job # None /\ wk[w].job # None)
              => wk[v].job[1].id # wk[w].job[1].id

\* C2 witness: two workers are inside dequeue at the same time, each with
\* the job its BRPOP returned.
C2_TwoWorkersClaimed ==
    /\ Len(claimed) = 2
    /\ claimed[1][1] # claimed[2][1]
    /\ \A w \in Workers : wk[w].pc = "deq_hset"

\* C3: when a run left the loop through status=paused and the worker has
\* finished handling the job, the stored status of the job is still running.
C3_PausedStaysRunning ==
    \A w \in Workers :
        ( /\ wk[w].pc = "dequeue"
          /\ hs[WkProc(w)].pc = "returned"
          /\ \E e \in Stored(hs[WkProc(w)].run_id) : Paused(e) )
        => jobs[JobIdOf(RequestOfRun(hs[WkProc(w)].run_id))].status = "running"

\* C4: a stop request with the run id that start_agent_run returned leaves
\* the stored status of the job that wraps the run at cancelled.
C4_StopCancelsJob ==
    [][\A r \in Requests :
          (req[r].pc = "returned" /\ stop_agent_run(RunIdOf(r)))
              => jobs'[JobIdOf(r)].status = "cancelled"]_vars

\* C5: once start_agent_run has returned the identifier of a run, get_job
\* called with that identifier finds the job and returns its stored status
\* and its payload.
C5_QueryFindsRun ==
    \A r \in Requests :
        req[r].pc = "returned" =>
            /\ get_job(RunIdOf(r)) # None
            /\ get_job(RunIdOf(r))[1].status = jobs[JobIdOf(r)].status
            /\ get_job(RunIdOf(r))[1].data = req[r].job

\* C6: the stored status of a job never returns to queued once a worker has
\* marked it running or terminal, and never leaves a terminal status for a
\* non-terminal one.
C6_StatusForward ==
    [][\A k \in JobIds :
          /\ (jobs[k].status \in {"running"} \cup Terminal
                  => jobs'[k].status # "queued")
          /\ (jobs[k].status \in Terminal => jobs'[k].status \in Terminal)]_vars

\* C7: no job that dequeue has removed from the queue has the stored status
\* queued.
C7_PopMarksRunning ==
    \A w \in Workers :
        wk[w].pc = "deq_hset" => jobs[wk[w].job[1].id].status # "queued"

\* C8: a client that read the history of a run and then attached to the
\* live stream of its project while the run was still emitting has, once
\* the run is over, seen every step of the run exactly once.
RECURSIVE Count(_, _)
Count(q, step) ==
    IF q = <<>> THEN 0
    ELSE (IF Head(q).step = step THEN 1 ELSE 0) + Count(Tail(q), step)
Seen(s) ==
    sub[s].replay \o SelectSeq(inbox[s], LAMBDA e : e.runId = sub[s].run_id)
RunOver(k) ==
    /\ \A p \in Procs : pub[p] = None
    /\ \A r \in Requests : RunIdOf(r) = k => req[r].pc = "returned"
    /\ \A w \in Workers : wk[w].pc = "dequeue"
    /\ \E w \in Workers : hs[WkProc(w)].run_id = k
C8_ReplayThenLive ==
    \A s \in Subscribers :
        ( /\ sub[s].pc = "live"
          /\ sub[s].replayed
          /\ sub[s].mid_run
          /\ \E i \in 1..Len(inbox[s]) : inbox[s][i].runId = sub[s].run_id
          /\ RunOver(sub[s].run_id)
          /\ \A e \in Stored(sub[s].run_id) : e.projectId = sub[s].project )
        => \A e \in Stored(sub[s].run_id) : Count(Seen(s), e.step) = 1

\* C9: a complete event has been emitted for a run exactly if some snapshot
\* read at the top of its loop had pending = 0 and total > 0.
C9_CompleteIffAllPassing ==
    \A k \in HistKeys :
        (\E e \in Emitted(k) : e.event = "complete")
        <=> (\E i \in 1..Len(reads) :
                /\ reads[i].run_id = k
                /\ reads[i].progress.pending = 0
                /\ reads[i].progress.total > 0)

\* C9 witness: a run emitted complete after at least one session.
C9_CompleteAfterSession ==
    \E k \in HistKeys :
        /\ \E e \in Stored(k) : e.event = "complete"
        /\ \E i \in 1..Len(reads) : reads[i].run_id = k /\ reads[i].session > 1

\* C10: for a harness whose max_iterations is an integer, the loop goes on to
\* read the snapshot of session s only if s does not exceed max_iterations,
\* and status=paused has been emitted exactly if the session index exceeds
\* max_iterations.
LoopHarnesses == {WkProc(w) : w \in Workers} \cup {RealProc}
C10_PausedIffLimit ==
    \A h \in LoopHarnesses :
        (hs[h].pc # "none" /\ hs[h].max_iterations # None) =>
            /\ \A i \in 1..Len(reads) :
                  reads[i].run_id = hs[h].run_id
                      => reads[i].session <= hs[h].max_iterations[1]
            /\ (\E e \in Emitted(hs[h].run_id) : Paused(e))
                  => hs[h].session > hs[h].max_iterations[1]

\* C11: when an exception has left run(), of AgentHarness or of
\* RealAgentHarness, exactly one error event naming the class of the
\* exception has been published for the run, and an AgentHarness is FAILED
\* with its worker about to store failed.
ErrorEvents(k) == {e \in Emitted(k) : e.event = "error"}
C11_ExceptionReported ==
    /\ \A w \in Workers :
          (wk[w].pc = "running" /\ hs[WkProc(w)].pc = "raised") =>
              /\ hs[WkProc(w)].status = "failed"
              /\ ErrorEvents(hs[WkProc(w)].run_id) =
                     {e \in ErrorEvents(hs[WkProc(w)].run_id) :
                          e.data = [type |-> hs[WkProc(w)].error]}
              /\ Cardinality(ErrorEvents(hs[WkProc(w)].run_id)) = 1
    /\ hs[RealProc].pc = "crashed" =>
          /\ Cardinality(ErrorEvents(RealRunId)) = 1
          /\ \E e \in ErrorEvents(RealRunId) :
                e.data = [type |-> hs[RealProc].error]

\* C12: an exception raised inside a session does not make the run FAILED
\* and does not make the stored status of its job failed; a RealAgentHarness
\* whose session reported an error has announced the retry before it goes on.
RetryStatus == [status |-> "error", message |-> "Session failed, will retry..."]
C12_SessionFailureAbsorbed ==
    /\ \A w \in Workers :
          (hs[WkProc(w)].pc # "none" /\ hs[WkProc(w)].error # "") =>
              /\ hs[WkProc(w)].status # "failed"
              /\ jobs[JobIdOf(RequestOfRun(hs[WkProc(w)].run_id))].status
                     # "failed"
    /\ hs[RealProc].pc = "retrying" =>
          \E e \in Emitted(RealRunId) :
              e.event = "status" /\ e.data = RetryStatus

\* C13: when RealAgentHarness.run goes on after a failed session k, having
\* announced the retry, the session index becomes k + 1, and the
\* status=running event it then publishes carries session k + 1.
C13_RetryNextIndex ==
    [][(hs[RealProc].pc = "retrying" /\ hs'[RealProc].pc # "retrying") =>
          /\ \E e \in Emitted(RealRunId) :
                e.event = "status" /\ e.data = RetryStatus
          /\ hs'[RealProc].session = hs[RealProc].session + 1
          /\ hs'[RealProc].pc = "agent_session" =>
                /\ pub'[RealProc] # None
                /\ pub'[RealProc][1].msg.data.status = "running"
                /\ pub'[RealProc][1].msg.data.session
                       = hs[RealProc].session + 1]_vars

\* C13 witness: the engine failed in session 1 and the run is in session 2.
C13_SecondAttempt ==
    /\ hs[RealProc].pc = "agent_session"
    /\ hs[RealProc].session = 2
    /\ hs[RealProc].attempts = 1
    /\ \E e \in Stored(RealRunId) : e.event = "status" /\ e.data = RetryStatus

\* C14: a run whose first snapshot has pending = 0 and total > 0 has run no
\* session and published no status=running event, and the complete event it
\* published carries featuresCompleted = 0 and commitsMade = 0.
ReadsOf(k) == SelectSeq(reads, LAMBDA r : r.run_id = k)
FirstAllPassing(k) ==
    /\ ReadsOf(k) # <<>>
    /\ ReadsOf(k)[1].progress.pending = 0
    /\ ReadsOf(k)[1].progress.total > 0
SessionEvents == {"feature", "tool_call", "tool_result", "test", "commit",
                  "message"}
C14_SkipWhenAllPassing ==
    \A k \in HistKeys :
        FirstAllPassing(k) =>
            /\ Len(ReadsOf(k)) = 1
            /\ \A e \in Emitted(k) :
                  /\ e.event \notin SessionEvents
                  /\ e.event = "status" => e.data.status # "running"
            /\ \E e \in Emitted(k) : e.event = "complete"
            /\ \A e \in Emitted(k) :
                  e.event = "complete" =>
                      /\ e.data.featuresCompleted = 0
                      /\ e.data.commitsMade = 0

\* C14 witness: a run found every feature passing at its first read and its
\* complete event is stored.
C14_CompleteAtOnce ==
    \E k \in HistKeys :
        /\ FirstAllPassing(k)
        /\ \E e \in Stored(k) : e.event = "complete"

\* C15: a feature ledger that is missing or cannot be parsed is read as the
\* snapshot total 0, passing 0, pending 0 by both get_progress, and a loop
\* that reads it at its top publishes status=running and goes on to the
\* session: no complete event, no exception.
Unreadable == {LedgerMissing, LedgerMalformed}
LastRead == reads[Len(reads)]
C15_UnreadableLedgerIsZero ==
    [][(Len(reads') = Len(reads) + 1 /\ ledger["p1"] \in Unreadable) =>
          /\ get_progress(ledger["p1"]) = ZeroProgress
          /\ real_get_progress(ledger["p1"]) = ZeroProgress
          /\ LastRead'.progress = ZeroProgress
          /\ \A h \in LoopHarnesses :
                (hs'[h] # hs[h]) =>
                    /\ hs'[h].pc \in {"session", "agent_session"}
                    /\ hs'[h].error = ""
                    /\ pub'[h] # None
                    /\ pub'[h][1].msg.event = "status"
                    /\ pub'[h][1].msg.data.status = "running"
                    /\ pub'[h][1].msg.data.progress = ZeroProgress]_vars

\* C15 witness: a worker's run read a ledger that is not JSON and its
\* session has started.
C15_SessionAfterMalformed ==
    \E w \in Workers :
        /\ ledger["p1"] = LedgerMalformed
        /\ hs[WkProc(w)].pc = "sess_steps"
        /\ ReadsOf(hs[WkProc(w)].run_id) # <<>>
        /\ \E e \in Stored(hs[WkProc(w)].run_id) :
              e.event = "feature" /\ e.data.action = "started"

\* C16: jobs are claimed in the order in which they were appended. The jobs
\* claimed so far followed by the queued jobs, oldest first, is the order of
\* the appends; every step leaves that sequence as it is or extends it at
\* its end, so a job is never claimed before one appended earlier.
IdsOf(q) == [i \in 1..Len(q) |-> q[i].id]
EnqueueOrder == [i \in 1..Len(claimed) |-> claimed[i][2]] \o Reverse(IdsOf(queue))
Returned(i) ==
    ~ /\ wk[claimed[i][1]].pc = "deq_hset"
      /\ wk[claimed[i][1]].job[1].id = claimed[i][2]
Executing(k) ==
    \E w \in Workers : /\ wk[w].pc \in {"run", "running"}
                       /\ wk[w].job[1].run_id = k

NextStop ==
    \/ NextPipeline
    \/ \E k \in ClientIds \cap RunIds : Executing(k) /\ stop_agent_run(k)

SpecStop == Init /\ [][NextStop]_vars

\* C17: a stop request that arrives while the job is executing stores
\* cancelled and leaves the worker alone; when the worker then stores its
\* terminal status, that status replaces every cancelled status stored for
\* the run or for its job.
C17_WorkerStatusReplacesCancelled ==
    [][\A w \in Workers :
          (wk[w].pc = "complete" /\ wk'[w].pc = "dequeue") =>
              \A key \in {wk[w].job[1].run_id, wk[w].job[1].id} :
                  jobs[key].status = "cancelled"
                      => jobs'[key].status = wk[w].result]_vars

\* C18: the history of a run as get_run_events returns it is in step order:
\* the step-0 queued event first, then steps in increasing order.
C18_HistoryInStepOrder ==
    \A k \in RunIds :
        \A i, j \in 1..Len(RunEvents(k)) :
            i < j => RunEvents(k)[i].step < RunEvents(k)[j].step

\* ------------------------------------------------- retention of the history
\* One run whose features all pass (step 0 from start_agent_run, step 1 from
\* the harness), the passing of time, and publishers that stop.
MaxTicks == 3           \* times the clock advances in a behaviour

\* Seconds by which the clock advances at once.
TickChoices == {1, HISTORY_TTL - 1, HISTORY_TTL}

\* A publish() that has sent PUBLISH and not yet EXPIRE.
InPublish == \E p \in Procs : pub[p] # None

\* Time passes and a key whose expiry is reached stays as it is.
TickKeeps(d) ==
    /\ clock.ticks < MaxTicks
    /\ InPublish => d = 1
    /\ clock' = [clock EXCEPT !.now = @ + d, !.ticks = @ + 1]
    /\ ttl' = [k \in HistKeys |->
                  IF ttl[k] = -1 \/ ttl[k] <= d THEN -1 ELSE ttl[k] - d]
    /\ UNCHANGED <<queue, jobs, history, inbox, sub, ledger, req, wk, hs, pub,
                   claimed, hook, reads>>

\* Time passes: Redis counts every expiry down and deletes a key whose expiry
\* is reached. A publisher that runs sends its three commands within
\* seconds: while one is inside publish(), the clock advances by one second.
Tick(d) ==
    /\ clock.ticks < MaxTicks
    /\ InPublish => d = 1
    /\ clock' = [clock EXCEPT !.now = @ + d, !.ticks = @ + 1]
    /\ ttl' = [k \in HistKeys |->
                  IF ttl[k] = -1 \/ ttl[k] <= d THEN -1 ELSE ttl[k] - d]
    /\ history' = [k \in HistKeys |->
                      IF ttl[k] # -1 /\ ttl[k] <= d THEN <<>> ELSE history[k]]
    /\ UNCHANGED <<queue, jobs, inbox, sub, ledger, req, wk, hs, pub,
                   claimed, hook, reads>>

\* The process that is inside publish() stops (it is killed or its task is
\* cancelled) before the next command of publish() is sent.
PublisherStops(p) ==
    /\ pub[p] # None
    /\ pub' = [pub EXCEPT ![p] = None]
    /\ req' = [r \in Requests |->
                  IF p = ReqProc(r) THEN [req[r] EXCEPT !.pc = "stopped"]
                  ELSE req[r]]
    /\ wk' = [w \in Workers |->
                 IF p = WkProc(w) THEN [wk[w] EXCEPT !.pc = "stopped"]
                 ELSE wk[w]]
    /\ hs' = IF p = RealProc THEN [hs EXCEPT ![RealProc].pc = "stopped"]
             ELSE hs
    /\ UNCHANGED <<queue, jobs, history, ttl, clock, inbox, sub, ledger,
                   claimed, hook, reads>>

InitTtl == InitWith(LedgerList(<<TRUE>>))

NextSliding ==
    \/ EnqueueLpush(1, "p1", Some(1))
    \/ EnqueueHset(1)
    \/ StartPublish(1)
    \/ StartReturn(1)
    \/ \E p \in Procs : PubLpush(p)
    \/ \E p \in Procs : PubExpire(p)
    \/ DequeuePop(1)
    \/ DequeueTimeout(1)
    \/ DequeueHset(1)
    \/ RunStart(1)
    \/ RunReturn(1)
    \/ WorkerComplete(1)
    \/ \E d \in TickChoices : Tick(d)

SpecSliding == InitTtl /\ [][NextSliding]_vars

NextTtl ==
    \/ NextSliding
    \/ \E p \in Procs : PublisherStops(p)

SpecTtl == InitTtl /\ [][NextTtl]_vars

\* Seconds since the last append to the history of run k.
Age(k) == clock.now - clock.last[k]
Publishing(k) == \E p \in Procs : pub[p] # None /\ pub[p][1].msg.runId = k

\* Seconds a running publisher can take from LPUSH to EXPIRE.
PublishSlack == MaxTicks

\* C19: when no publish for a run is under way (each has finished or was cut
\* short) and the retention time, plus the seconds a publish can take, has
\* elapsed since the last append to its history, the history of the run is
\* empty.
C19_EmptyAfterTtl ==
    \A k \in RunIds :
        ( /\ clock.last[k] # -1
          /\ ~Publishing(k)
          /\ Age(k) >= HISTORY_TTL + PublishSlack )
        => RunEvents(k) = <<>>

\* C20: the retention window restarts at every append: less than the
\* retention time after the last append, the history of a run holds every
\* event of the chain of appends that followed one another within the
\* retention time, however long ago the first of them was.
C20_SlidingWindow ==
    \A k \in RunIds :
        (clock.last[k] # -1 /\ Age(k) < HISTORY_TTL)
            => Len(RunEvents(k)) >= clock.kept[k]

\* C21: the history of a run holds at most a fixed number of events, however
\* many events the run publishes. The number is that of the longest run of
\* one session: the queued announcement, the initializer (its status event,
\* its scripted events, status=initialized), one session (status=running,
\* feature started, its scripted events, test, commit, feature completed)
\* and status=paused; a run of more sessions stores no more than that.
C21_HistoryBounded ==
    LET initializer == 2 + Len(InitializerSteps)
        session == 5 + Len(SessionSteps)
    IN \A k \in RunIds : Len(history[k]) <= 1 + initializer + session + 1

\* C22: the PUBLISH of publish(event) delivers the event, after the events
\* published before it, to every subscriber attached to the channel of
\* event.project_id and to no other subscriber; and when publish(event)
\* returns, the event is the newest entry of the history of event.run_id.
C22_DeliveredAndNewest ==
    [][\A p \in Procs :
          /\ (pub[p] = None /\ pub'[p] # None)
                => inbox' = Deliver(inbox, pub'[p][1].msg)
          /\ (pub[p] # None /\ pub[p][1].stage = "expire" /\ pub'[p] = None)
                => /\ history'[pub[p][1].msg.runId] # <<>>
                   /\ history'[pub[p][1].msg.runId][1] = pub[p][1].msg]_vars

\* ------------------------------------------------- subscribers that go away
\* One run whose features all pass, and two clients that attach to the live
\* stream of either project and go away at any moment.
NextFanout ==
    \/ EnqueueLpush(1, "p1", Some(1))
    \/ EnqueueHset(1)
    \/ StartPublish(1)
    \/ StartReturn(1)
    \/ \E p \in Procs : PubLpush(p)
    \/ \E p \in Procs : PubExpire(p)
    \/ \E s \in Subscribers, project \in Projects : Subscribe(s, project)
    \/ \E s \in Subscribers : Disconnect(s)
    \/ DequeuePop(1)
    \/ DequeueTimeout(1)
    \/ DequeueHset(1)
    \/ RunStart(1)
    \/ RunReturn(1)
    \/ WorkerComplete(1)

SpecFanout == InitTtl /\ [][NextFanout]_vars

\* C23: a subscriber that goes away changes nothing but its own connection:
\* the step in which it does leaves the queue, the jobs, the histories, the
\* publish calls in flight and the other subscribers as they were; and
\* whatever the other subscribers have done, a subscriber that is attached
\* has received every event published on its channel since it attached and
\* nothing else.
C23_DisconnectIsolated ==
    [][/\ \A s \in Subscribers :
             (sub[s].pc = "live" /\ sub'[s].pc = "closed") =>
                 /\ UNCHANGED <<queue, jobs, history, ttl, inbox, ledger,
                                req, wk, hs, pub>>
                 /\ \A t \in Subscribers \ {s} : sub'[t] = sub[t]
       /\ \A t \in Subscribers :
             sub'[t].pc = "live" =>
                 /\ \A project \in Projects :
                        project = sub'[t].project =>
                            Len(inbox'[t])
                                = Published(project)' - sub'[t].since
                 /\ \A i \in 1..Len(inbox'[t]) :
                        inbox'[t][i].projectId = sub'[t].project]_vars

\* C23 witness: one subscriber went away after the first event of the run;
\* the other, attached to the same channel, received the second event too,
\* and both publish calls have returned.
C23_SurvivorReceivedAll ==
    \E s, t \in Subscribers :
        /\ sub[s].pc = "closed" /\ sub[s].project = "p1"
        /\ Len(inbox[s]) = 1
        /\ sub[t].pc = "live" /\ sub[t].project = "p1"
        /\ Len(inbox[t]) = 2
        /\ Len(history[RunIdOf(1)]) = 2
        /\ \A p \in Procs : pub[p] = None

\* C24: every status stored for a job is announced on the stream of its run.
\* A status cancelled stored for a run or for its job comes with a published
\* event of the run that carries it; and once the worker has stored the
\* terminal status of a job, a published event of the run tells it (failed: an
\* error event; completed: the complete event or the closing status event),
\* as a status=running or initializing event told that the job was running.
C24_StatusChangesAnnounced ==
    \A r \in Requests :
        LET events == Emitted(RunIdOf(r))
            Tells(e, st) ==
                \/ e.event = "status" /\ e.data.status = st
                \/ st = "failed" /\ e.event = "error"
                \/ st = "completed" /\ (e.event = "complete" \/ Paused(e))
                \/ st = "running" /\ e.event = "status"
                                  /\ e.data.status = "initializing"
        IN /\ \A key \in {RunIdOf(r), JobIdOf(r)} :
                 jobs[key].status = "cancelled"
                     => \E e \in events : Tells(e, "cancelled")
           /\ \A w \in Workers :
                 ( /\ wk[w].pc = "dequeue"
                   /\ hs[WkProc(w)].run_id = RunIdOf(r)
                   /\ hs[WkProc(w)].pc \in {"returned", "raised"} )
                 => /\ \E e \in events : Tells(e, "running")
                    /\ jobs[JobIdOf(r)].status \in {"completed", "failed"}
                          => \E e \in events :
                                 Tells(e, jobs[JobIdOf(r)].status)

\* ------------------------------------------------ the two stream transports
\* One run whose features all pass, stop requests, a WebSocket client of the
\* project (subscriber 1) and an SSE client of a run (subscriber 2).
NextStream ==
    \/ EnqueueLpush(1, "p1", Some(1))
    \/ EnqueueHset(1)
    \/ StartPublish(1)
    \/ StartReturn(1)
    \/ \E p \in Procs : PubLpush(p)
    \/ \E p \in Procs : PubExpire(p)
    \/ \E k \in ClientIds : stop_agent_run(k)
    \/ Subscribe(1, "p1")
    \/ \E k \in ClientIds : stream_events(2, k)
    \/ DequeuePop(1)
    \/ DequeueTimeout(1)
    \/ DequeueHset(1)
    \/ RunStart(1)
    \/ RunReturn(1)
    \/ WorkerComplete(1)

SpecStream == InitTtl /\ [][NextStream]_vars

\* C25: a WebSocket connection to the project of a run and an SSE connection
\* requested for that run at the same moment (no event was published on the
\* channel between the two) have forwarded the same events: the events the
\* SSE frames carry are, in order, the events sent over the WebSocket.
C25_TransportsAgree ==
    \A s, t \in Subscribers :
        ( /\ sub[s].pc = "live"
          /\ sub[t].pc \in {"streaming", "not_found"}
          /\ sub[t].run_id \in RunIds
          /\ sub[s].project
                 = req[RequestOfRun(sub[t].run_id)].job[1].project_id
          /\ sub[s].since = sub[t].since )
        => [i \in 1..Len(SseFrames(t)) |-> SseFrames(t)[i].data] = inbox[s]

\* C26: a worker is done with a job it dequeued in exactly one way: run() has
\* returned or raised, and in that step the worker stores the terminal status
\* of that job and of no other key, failed when run() raised and completed
\* when it returned. As long as it holds the job, no step stores completed or
\* failed for it, so the terminal status is written once.
C26_TerminalWrittenOnce ==
    [][\A w \in Workers :
          /\ (wk[w].job # None /\ wk'[w].job = None) =>
                /\ wk[w].pc = "complete"
                /\ hs[WkProc(w)].pc \in {"returned", "raised"}
                /\ jobs'[wk[w].job[1].id].status =
                       IF hs[WkProc(w)].pc = "raised" THEN "failed"
                       ELSE "completed"
                /\ \A k \in Keys \ {wk[w].job[1].id} : jobs'[k] = jobs[k]
          /\ (wk[w].job # None /\ wk'[w].job # None) =>
                (jobs'[wk[w].job[1].id].status \in {"completed", "failed"}
                     => jobs'[wk[w].job[1].id] = jobs[wk[w].job[1].id])]_vars

\* C26 witness: the run of a job raised and its worker has stored failed.
C26_FailedStored ==
    \E w \in Workers :
        /\ wk[w].pc = "dequeue"
        /\ hs[WkProc(w)].pc = "raised"
        /\ jobs[JobIdOf(RequestOfRun(hs[WkProc(w)].run_id))].status = "failed"

\* ------------------------------------------------------- workers that stop
\* The job queue with worker processes that stop while they hold a job:
\* inside dequeue, during the run, or before complete() is sent.
WorkerStops(w) ==
    /\ wk[w].pc \in {"deq_hset", "run", "complete"}
    /\ wk' = [wk EXCEPT ![w].pc = "stopped"]
    /\ UNCHANGED <<queue, jobs, history, ttl, clock, inbox, sub, ledger, req,
                   hs, pub, claimed, hook, reads>>

NextCrash ==
    \/ NextQueue
    \/ \E w \in Workers : WorkerStops(w)

SpecCrash == InitQueue /\ [][NextCrash]_vars

\* C27: a job that BRPOP has handed to a worker is not on the queue again and
\* no later dequeue has returned it, whatever became of the worker: its run
\* completed or failed, or the worker stopped before storing a terminal
\* status.
C27_NeverRequeued ==
    \A i \in 1..Len(claimed) :
        /\ \A j \in 1..Len(queue) : queue[j].id # claimed[i][2]
        /\ \A j \in 1..Len(claimed) : j # i => claimed[j][2] # claimed[i][2]

\* C27 witness: a worker stopped holding a job whose stored status is not
\* terminal; the other worker has since dequeued the next job, finished it
\* and finds the queue empty.
C27_StoppedJobStaysClaimed ==
    \E v, w \in Workers :
        /\ wk[v].pc = "stopped"
        /\ jobs[wk[v].job[1].id].status \notin Terminal
        /\ Len(claimed) = 2
        /\ claimed[1] = <<v, wk[v].job[1].id>>
        /\ claimed[2][1] = w
        /\ wk[w].pc = "dequeue"
        /\ jobs[claimed[2][2]].status = "failed"
        /\ queue = <<>>

\* ------------------------------------------------------ replay of a history
\* The run of the retention section, the passing of time, and a client that
\* asks for the history of a run id: that of the run, or one no run has.
NextReplay ==
    \/ NextSliding
    \/ \E k \in RunIds : GetRunEvents(1, k)

SpecReplay == InitTtl /\ [][NextReplay]_vars

\* C28: get_run_events leaves the queue, the jobs, the histories and their
\* expiries as they are, and returns the empty sequence for a run id to which
\* nothing was ever appended and for a run whose retention time has elapsed
\* since the last append (no publish being under way).
C28_ReplayOfNothingIsEmpty ==
    [][\A s \in Subscribers :
          (sub[s].pc = "new" /\ sub'[s].pc = "replayed") =>
              /\ UNCHANGED <<queue, jobs, history, ttl>>
              /\ \A k \in RunIds :
                    ( /\ k = sub'[s].run_id
                      /\ ~Publishing(k)
                      /\ \/ clock.last[k] = -1
                         \/ Age(k) >= HISTORY_TTL + PublishSlack )
                    => sub'[s].replay = <<>>]_vars

\* C28 witness: the history of the run held both events of the run, its
\* retention time has elapsed, and the client that then asked for it was
\* handed the empty sequence.
C28_ExpiredReplayedEmpty ==
    /\ sub[1].pc = "replayed"
    /\ sub[1].run_id = RunIdOf(1)
    /\ sub[1].replay = <<>>
    /\ clock.kept[RunIdOf(1)] = 2
    /\ Age(RunIdOf(1)) >= HISTORY_TTL + PublishSlack
    /\ wk[1].pc = "dequeue" /\ wk[1].job = None

C30_OneRunningPerSession ==
    \A k \in HistKeys :
        LET running == {e \in Emitted(k) :
                            e.event = "status" /\ e.data.status = "running"}
            coding == {e \in Emitted(k) :
                           e.event \in {"feature", "test", "commit"}}
        IN /\ \A e, f \in running : e.data.session = f.data.session => e = f
           /\ \A h \in LoopHarnesses :
                 ( /\ hs[h].pc # "none"
                   /\ hs[h].run_id = k
                   /\ hs[h].max_iterations = Some(1)
                   /\ \E e \in Emitted(k) : Paused(e) )
                 => /\ Cardinality(running) = 1
                    /\ \A e \in running, f \in coding : e.step < f.step
                    /\ \A e \in running \cup coding, f \in Emitted(k) :
                          Paused(f) => e.step < f.step

\* C31: the events of a session follow the order of the actions. For a
\* RealAgentHarness with the SDK, the i-th block the engine reported (text,
\* tool invocation, tool result) has its event, and exactly i - 1 events of
\* reported blocks carry a smaller step; the run has no other such event.
\* In the scripted sessions of AgentHarness every tool_result event follows
\* the tool_call event of its tool at the next step.
C31_EventsInReportedOrder ==
    LET handled == SelectSeq(hs[RealProc].reported,
                             LAMBDA m : m.kind # "other")
        engine == {e \in Emitted(RealRunId) :
                      \/ e.event \in {"message", "tool_call", "tool_result"}
                      \/ e.event = "error" /\ "output" \in DOMAIN e.data}
    IN /\ (hs[RealProc].pc # "none" /\ hs[RealProc].sdk) =>
              /\ Cardinality(engine) = Len(handled)
              /\ \A i \in 1..Len(handled) :
                    \E e \in engine :
                        /\ e.event = ReportType(handled[i])
                        /\ e.data = ReportData(handled[i])
                        /\ Cardinality({f \in engine : f.step < e.step})
                               = i - 1
       /\ \A k \in RunIds :
             \A e \in Emitted(k) :
                 e.event = "tool_result" =>
                     \E f \in Emitted(k) :
                         f.event = "tool_call" /\ f.step = e.step - 1

\* C31 witness: the engine reported a tool invocation and then its result,
\* and both events are stored.
C31_CallThenResultStored ==
    /\ hs[RealProc].pc # "none"
    /\ hs[RealProc].sdk
    /\ Len(hs[RealProc].reported) = 2
    /\ hs[RealProc].reported[1].kind = "tool_use"
    /\ hs[RealProc].reported[2].kind = "tool_result"
    /\ Len(history[RealRunId]) >= 4
    /\ history[RealRunId][1].event = "tool_result"
    /\ history[RealRunId][2].event = "tool_call"

\* C32: every tool result the engine reported whose text contains the marker
\* "blocked", in either case and whether or not it is flagged is_error, has
\* its event (the i-th event of reported blocks for the i-th block), and
\* that event is a tool_result with blocked = true.
C32_BlockedResultFlagged ==
    LET handled == SelectSeq(hs[RealProc].reported,
                             LAMBDA m : m.kind # "other")
        engine == {e \in Emitted(RealRunId) :
                      \/ e.event \in {"message", "tool_call", "tool_result"}
                      \/ e.event = "error" /\ "output" \in DOMAIN e.data}
    IN (hs[RealProc].pc # "none" /\ hs[RealProc].sdk) =>
           \A i \in 1..Len(handled) :
               (handled[i].kind = "tool_result" /\ handled[i].content.at > 0)
               => \E e \in engine :
                      /\ Cardinality({f \in engine : f.step < e.step}) = i - 1
                      /\ e.event = "tool_result"
                      /\ "blocked" \in DOMAIN e.data
                      /\ e.data.blocked

\* C33: a loop that goes on after a session that ended successfully has
\* announced the auto-continue pause. An AgentHarness whose session index
\* is s has published s - 1 status=continuing events, one for each session
\* that returned; a RealAgentHarness that is past a successful session has
\* published the status=continuing event of that session.
C33_ContinueAnnounced ==
    LET Continuing(k) == {e \in Emitted(k) : /\ e.event = "status"
                                            /\ e.data.status = "continuing"}
    IN /\ \A w \in Workers :
             hs[WkProc(w)].pc # "none" =>
                 Cardinality(Continuing(hs[WkProc(w)].run_id))
                     = hs[WkProc(w)].session - 1
       /\ hs[RealProc].pc = "continued" =>
             \E e \in Continuing(RealRunId) :
                 e.data.session = hs[RealProc].session


\* C34: get_job reports not-found (None) for every identifier that enqueue
\* never assigned to a job, after any sequence of enqueue, dequeue, complete
\* and stop_agent_run calls, a stop with an identifier that names no job
\* included.
C34_UnassignedNotFound ==
    LET Assigned == {JobIdOf(r) : r \in {q \in Requests : req[q].pc # "new"}}
    IN \A key \in Keys \ Assigned : get_job(key) = None


\* ------------------------------------------------- the run loops, scheduled
\* The steps of worker w: run_worker is a process of its own, and every
\* await of it completes when Redis answers.
WorkerStep(w) ==
    \/ DequeuePop(w)
    \/ DequeueHset(w)
    \/ RunStart(w)
    \/ InitializerStep(WkProc(w))
    \/ InitializerWrite(WkProc(w))
    \/ AfterInitializer(w)
    \/ SessionStart(WkProc(w))
    \/ SessionStep(WkProc(w))
    \/ SessionTest(WkProc(w))
    \/ SessionUpdate(WkProc(w))
    \/ SessionFinish(WkProc(w))
    \/ NextSession(w)
    \/ RunReturn(w)
    \/ RunExcept(w)
    \/ RunRaise(w)
    \/ WorkerComplete(w)
    \/ PubLpush(WkProc(w))
    \/ PubExpire(WkProc(w))

\* The steps of RealAgentHarness.run() once it has been called; the engine
\* reports at most MaxEngineMsgs messages and then ends or fails the session.
RealStep ==
    \/ RealEnter
    \/ RealAgentSession
    \/ InitializerStep(MockProc)
    \/ InitializerWrite(MockProc)
    \/ SessionStart(MockProc)
    \/ SessionStep(MockProc)
    \/ SessionTest(MockProc)
    \/ SessionUpdate(MockProc)
    \/ SessionFinish(MockProc)
    \/ RealSimulateReturn
    \/ RealSimulateRaise
    \/ RealEngineEnd
    \/ RealEngineFail
    \/ RealRetry
    \/ RealNextSession
    \/ RealFinal
    \/ RealDone
    \/ PubLpush(RealProc)
    \/ PubExpire(RealProc)

\* Runs with an iteration limit: every job is enqueued, and every
\* RealAgentHarness is built, with max_iterations N >= 1; the engine reports
\* text blocks and messages that are not handled.
NextLimited ==
    /\ NextLoops
    /\ \A r \in Requests :
          req'[r].job # None => Truthy(req'[r].job[1].max_iterations)
    /\ hs'[RealProc].pc # "none" =>
          /\ Truthy(hs'[RealProc].max_iterations)
          /\ \A i \in 1..Len(hs'[RealProc].reported) :
                hs'[RealProc].reported[i].kind \in {"text", "other"}

\* Both run controllers under the scheduling of asyncio and the operating
\* system: a coroutine whose next step is possible takes it.
SpecLimited ==
    /\ InitLoops
    /\ [][NextLimited]_vars
    /\ \A w \in 1..RunWorkers : WF_vars(WorkerStep(w))
    /\ WF_vars(RealStep)

\* C35: with max_iterations N >= 1 every run terminates after at most N
\* sessions of the loop: a worker that holds such a job comes to write a
\* terminal job status and to be back at dequeue, the run having started at
\* most N sessions (status=running events of run_coding_loop), and
\* RealAgentHarness.run() comes to return or to leave with an exception after
\* at most N calls of run_agent_session.
C35_LimitedRunTerminates ==
    LET Started(k) == {e \in Emitted(k) : /\ e.event = "status"
                                          /\ e.data.status = "running"}
        Holds(w, r) == /\ wk[w].job # None
                       /\ wk[w].job[1].id = JobIdOf(r)
                       /\ Truthy(wk[w].job[1].max_iterations)
        Limited == hs[RealProc].pc # "none"
                   /\ Truthy(hs[RealProc].max_iterations)
    IN /\ \A w \in 1..RunWorkers, r \in 1..RunJobs :
            Holds(w, r) ~>
                (/\ wk[w].pc = "dequeue"
                 /\ jobs[JobIdOf(r)].status \in Terminal
                 /\ Cardinality(Started(RunIdOf(r)))
                        <= hs[WkProc(w)].max_iterations[1])
       /\ Limited ~>
            (/\ hs[RealProc].pc \in {"done", "crashed"}
             /\ hs[RealProc].attempts <= hs[RealProc].max_iterations[1])

\* A run with max_iterations 2 has left the loop through paused after two
\* sessions, and the worker has written the terminal status of its job.
C35_PausedAfterTwo ==
    /\ wk[1].pc = "dequeue"
    /\ jobs[JobIdOf(1)].status = "completed"
    /\ hs[WkProc(1)].max_iterations = Some(2)
    /\ hs[WkProc(1)].session = 3
    /\ \E e \in Emitted(RunIdOf(1)) : e.event = "status" /\ e.data.status = "paused"


\* C36: in AgentHarness every coding session that finishes raises the passing
\* count of the ledger by exactly one, whichever features of the list are
\* the passing ones: the rewrite of feature_list.json that precedes the
\* commit event leaves one more feature passing than the session found.
C36_SessionAddsOnePassing ==
    [][\A w \in Workers :
          (hs[WkProc(w)].pc = "sess_update" /\ hs'[WkProc(w)].pc = "sess_commit")
              => get_progress(ledger'[hs[WkProc(w)].project_id]).passing
                    = get_progress(ledger[hs[WkProc(w)].project_id]).passing + 1]_vars


C38_LoopsAgree ==
    \A h \in LoopHarnesses :
        hs[h].pc # "none" =>
            LET R == ReadsOf(hs[h].run_id)
                E == Emitted(hs[h].run_id)
                Started == {e.data.session :
                               e \in {x \in E : /\ x.event = "status"
                                                /\ x.data.status = "running"
                                                /\ "progress" \in DOMAIN x.data}}
                Exit == IF \E e \in E : Paused(e) THEN "paused"
                        ELSE IF \E e \in E : e.event = "complete"
                        THEN "complete" ELSE "none"
                Expected ==
                    IF R # <<>> /\ AllPassing(R[Len(R)].progress)
                    THEN "complete"
                    ELSE IF /\ LimitReached(hs[h].max_iterations, Len(R) + 1)
                            /\ hs[h].session = Len(R) + 1
                    THEN "paused" ELSE "none"
            IN /\ \A i \in 1..Len(R) : R[i].session = i
               /\ Started = {i \in 1..Len(R) : ~AllPassing(R[i].progress)}
               /\ Exit = Expected

\* RealAgentHarness.run with max_iterations 2 has returned after two
\* sessions, 1 and 2, and the exit through paused.
C38_RealPausedAfterTwo ==
    /\ hs[RealProc].pc = "done"
    /\ hs[RealProc].max_iterations = Some(2)
    /\ Len(ReadsOf(RealRunId)) = 2
    /\ ReadsOf(RealRunId)[2].session = 2
    /\ hs[RealProc].attempts = 2
    /\ \E e \in Emitted(RealRunId) : Paused(e)


\* C39: when RealAgentHarness.run() has left the loop and returned, the last
\* event of the run is a status event with status=complete whose
\* totalSessions is the number of engine sessions the run attempted (calls
\* of run_agent_session).
C39_TotalIsAttempts ==
    (hs[RealProc].pc = "done" /\ history[RealRunId] # <<>>) =>
        LET last == history[RealRunId][1]
        IN /\ last.event = "status"
           /\ last.data.status = "complete"
           /\ last.data.totalSessions = hs[RealProc].attempts


\* ------------------------------------------------- the security hook alone
\* Calls of validate_bash_command with every command of at most MaxCmdLen
\* characters.
NextHook == \E command \in Commands : SecurityHook(command)

SpecHook == InitQueue /\ [][NextHook]_vars

\* C40: validate_bash_command accepts a command exactly if the command has a
\* first whitespace-separated token and that token, or what follows its last
\* slash, is a member of ALLOWED_COMMANDS; every other command, the empty and
\* the all-blank one included, is rejected with a reason that is not empty.
C40_AcceptsAllowedOnly ==
    hook.called =>
        LET c == hook.command
            \* the first token: c[i..j], blanks before i, no blank inside,
            \* and the end of the command or a blank after j
            Tokens == {SubSeq(c, ij[1], ij[2]) :
                          ij \in {x \in (1..Len(c)) \X (1..Len(c)) :
                                      /\ x[1] <= x[2]
                                      /\ \A k \in 1..(x[1] - 1) : c[k] = " "
                                      /\ \A k \in x[1]..x[2] : c[k] # " "
                                      /\ x[2] = Len(c) \/ c[x[2] + 1] = " "}}
            \* the suffixes of t that hold no slash and start t or follow one
            Tails(t) == {SubSeq(t, k, Len(t)) :
                            k \in {x \in 1..(Len(t) + 1) :
                                      /\ \A y \in x..Len(t) : t[y] # "/"
                                      /\ x = 1 \/ t[x - 1] = "/"}}
            Allowed == \E t \in Tokens :
                          \/ t \in ALLOWED_COMMANDS
                          \/ \E u \in Tails(t) : u \in ALLOWED_COMMANDS
        IN /\ hook.result.ok <=> Allowed
           /\ ~hook.result.ok => hook.result.reason # <<>>
           /\ (\A k \in 1..Len(c) : c[k] = " ") => ~hook.result.ok

\* The hook accepted a path to an allowed command that follows blanks.
C40_PathAccepted ==
    /\ hook.called
    /\ hook.command = <<" ", "p", "/", "l", "s">>
    /\ hook.result = [ok |-> TRUE, reason |-> <<>>]
====
